---- MODULE Spec2Model ----
(***************************************************************************)
(* safejaq: sandboxed evaluation of an untrusted jq-like filter.           *)
(*                                                                         *)
(* SafeJaq::evaluate (the supervisor) re-executes the current binary as a  *)
(* child, writes one EvaluationRequest to its stdin, races the exchange    *)
(* against a wall-clock deadline, and either reads one EvaluationResult    *)
(* from the child's stdout or hands the child to a detached reaper task.   *)
(* evaluator_main is the child side; evaluate is the filter engine.        *)
(*                                                                         *)
(* Bytes are modelled as sequences of tokens.  A pipe is a bounded queue   *)
(* of tokens: a writer blocks when it is full, a reader sees end-of-file   *)
(* when it is empty and the write side is closed.                          *)
(***************************************************************************)
EXTENDS Integers, Sequences, FiniteSets, TLC

(* ---------------------------- bounds ----------------------------------- *)
\* number of evaluate calls in flight
NCalls == 2
\* capacity of an OS pipe, in tokens
PipeCap == 7
\* longest output sequence of a filter run that is enumerated
MaxOut == 3
\* largest finite resource ceiling and configured limit that is enumerated
MaxRlim == 3

Calls == 1..NCalls

(* ------------------------- program constants --------------------------- *)
\* Duration::from_secs(3): the reaper's grace period, in seconds
GraceSecs == 3

(* ------------------------------ values --------------------------------- *)
\* characters of a filter text: "a" is an ordinary character, "q" is a
\* double quote, which JSON strings must escape
Chars == {"a", "q"}

\* items of the lazy output sequence of filter.run: a boolean value, the
\* boolean that `test(..)` yields for the payload, another JSON value, or
\* an evaluation error
Items == {"true", "false", "test", "val", "err"}

Payloads == {"liron", "other"}

\* a payload nested deeper than the recursion limit of the JSON parser:
\* serde_json writes it and refuses to read it back
DeepPayload == "deep"

Min(a, b) == IF a < b THEN a ELSE b

\* the first n elements of s
Take(s, n) == SubSeq(s, 1, Min(n, Len(s)))

\* s without its first n elements
Drop(s, n) == SubSeq(s, Min(n, Len(s)) + 1, Len(s))

\* all sequences over S of length at most n
RECURSIVE SeqsUpTo(_, _)
SeqsUpTo(S, n) ==
    IF n = 0 THEN {<<>>}
    ELSE LET shorter == SeqsUpTo(S, n - 1)
         IN  shorter \cup {Append(s, x) : s \in {t \in shorter : Len(t) = n - 1}, x \in S}

(* ----------------------- serde_json conversions ------------------------ *)
\* a JSON string body: a quote is written as backslash, quote
RECURSIVE EscapeJson(_)
EscapeJson(s) ==
    IF s = <<>> THEN <<>>
    ELSE (IF Head(s) = "q" THEN <<"\\", "q">> ELSE <<Head(s)>>) \o EscapeJson(Tail(s))

\* serde_json::to_string(&EvaluationRequest { filter, payload })
SerializeRequest(text, payload) ==
    <<"{filter:", "dq">> \o EscapeJson(text) \o <<"dq", "payload:", payload, "}">>

\* serde_json::to_writer(stdout, &result) for Result<bool, String>
SerializeResult(r) ==
    IF r.tag = "Ok"
    THEN <<"{Ok:", (IF r.val THEN "true" ELSE "false"), "}">>
    ELSE <<"{Err:", "dq">> \o EscapeJson(r.msg) \o <<"dq", "}">>

Malformed == [tag |-> "Malformed"]

\* reads a JSON string body up to the closing quote: the unescaped text and
\* the rest after the closing quote, or Malformed
RECURSIVE ParseString(_, _)
ParseString(bytes, acc) ==
    IF bytes = <<>> THEN Malformed
    ELSE IF Head(bytes) = "dq" THEN [tag |-> "Str", str |-> acc, rest |-> Tail(bytes)]
    ELSE IF Head(bytes) = "\\"
         THEN IF Len(bytes) >= 2 /\ bytes[2] = "q"
              THEN ParseString(Tail(Tail(bytes)), Append(acc, "q"))
              ELSE Malformed
    ELSE IF Head(bytes) \in (Chars \ {"q"}) \cup {"P", "C"}
         THEN ParseString(Tail(bytes), Append(acc, Head(bytes)))
    ELSE Malformed

\* serde_json::from_slice::<EvaluationResult>(&stdout)
ParseResult(bytes) ==
    IF bytes = <<>> THEN Malformed
    ELSE IF Head(bytes) = "{Ok:"
         THEN IF Len(bytes) = 3 /\ bytes[2] \in {"true", "false"} /\ bytes[3] = "}"
              THEN [tag |-> "Ok", val |-> (bytes[2] = "true")]
              ELSE Malformed
    ELSE IF Head(bytes) = "{Err:" /\ Len(bytes) >= 2 /\ bytes[2] = "dq"
         THEN LET s == ParseString(Drop(bytes, 2), <<>>)
              IN  IF s.tag = "Str" /\ s.rest = <<"}">>
                  THEN [tag |-> "Err", msg |-> s.str]
                  ELSE Malformed
    ELSE Malformed

\* serde_json::from_slice::<EvaluationRequest>(&buf)
ParseRequest(bytes) ==
    IF Len(bytes) >= 2 /\ bytes[1] = "{filter:" /\ bytes[2] = "dq"
    THEN LET s == ParseString(Drop(bytes, 2), <<>>)
         IN  IF s.tag = "Str" /\ Len(s.rest) = 3 /\ s.rest[1] = "payload:"
                 /\ s.rest[2] \in Payloads /\ s.rest[3] = "}"
             THEN [tag |-> "Req", text |-> s.str, payload |-> s.rest[2]]
             ELSE Malformed
    ELSE Malformed

(* ---------------------------- filter engine ---------------------------- *)
\* What the jaq library does with a filter text is outside this repository:
\* a filter is its text together with the behaviour the library shows for
\* it.  load: "ok", or the stage that rejects the text.  outs: the finite
\* prefix of the output sequence of filter.run.  loops: after that prefix
\* the run never ends and yields no further boolean.
NoneOpt == [some |-> FALSE]

SomeOpt(v) == [some |-> TRUE, val |-> v]

\* the closure passed to find_map: Some(value) for Ok(Val::Bool(value))
BoolOf(item, payload) ==
    IF item = "true" THEN SomeOpt(TRUE)
    ELSE IF item = "false" THEN SomeOpt(FALSE)
    ELSE IF item = "test" THEN SomeOpt(payload = "liron")
    ELSE NoneOpt

\* only the first item is looked at, as Iterator::next would
first_item(outs, payload) ==
    IF outs = <<>> THEN NoneOpt ELSE BoolOf(Head(outs), payload)

\* Iterator::find_map over the lazy output sequence
RECURSIVE find_map(_, _)
find_map(outs, payload) ==
    IF outs = <<>> THEN NoneOpt
    ELSE IF BoolOf(Head(outs), payload).some THEN BoolOf(Head(outs), payload)
    ELSE find_map(Tail(outs), payload)

Diverges == [tag |-> "Diverges"]

\* fn evaluate(request) -> Result<bool, String>
evaluate(f, payload) ==
    IF f.load = "parse" THEN [tag |-> "Err", msg |-> <<"P">> \o f.text]
    ELSE IF f.load = "compile" THEN [tag |-> "Err", msg |-> <<"C">> \o f.text]
    ELSE LET found_match == find_map(f.outs, payload)
         IN  IF found_match.some THEN [tag |-> "Ok", val |-> found_match.val]
             ELSE IF f.loops THEN Diverges
             ELSE [tag |-> "Ok", val |-> FALSE]

\* the behaviour of the library for the text of a parsed request: the text
\* the caller passed behaves as the caller's filter, any other text is
\* rejected by the parser
FilterOf(text, f) ==
    IF text = f.text THEN f
    ELSE [text |-> text, load |-> "parse", outs |-> <<>>, loops |-> FALSE]

(* --------------------------- resource limits --------------------------- *)
\* RLIM_INFINITY, the largest rlim_t: above every finite ceiling
RlimInfinity == 2147483647

\* the (soft, hard) pair of one resource
Rlim(soft, hard) == [soft |-> soft, hard |-> hard]

\* the ceilings of a process that does not exist
NoRlimits == [tag |-> "none"]

\* setrlimit is called with the configured values whatever getrlimit says
set_limits_unconditional(rlimit, memory_limit, time_limit) ==
    [AS |-> Rlim(memory_limit, memory_limit),
     CPU |-> Rlim(time_limit, time_limit),
     CORE |-> Rlim(0, 0)]

\* fn set_limits(memory_limit, time_limit): the ceilings of the process
\* after it, given the ceilings before it
set_limits(rlimit, memory_limit, time_limit) ==
    [AS |-> IF memory_limit < rlimit.AS.soft
            THEN Rlim(memory_limit, memory_limit) ELSE rlimit.AS,
     CPU |-> IF time_limit < rlimit.CPU.soft
             THEN Rlim(time_limit, time_limit) ELSE rlimit.CPU,
     CORE |-> Rlim(0, 0)]

\* the values of a ceiling
RlimValues == (0..MaxRlim) \cup {RlimInfinity}

\* the pairs a process can have: the soft ceiling is at most the hard one
RlimPairs == {Rlim(p[1], p[2]) : p \in {q \in RlimValues \X RlimValues : q[1] <= q[2]}}

\* the ceilings a supervisor process may run under
AllRlimits ==
    {[AS |-> a, CPU |-> t, CORE |-> k] :
        a \in RlimPairs, t \in RlimPairs,
        k \in {Rlim(0, 0), Rlim(0, RlimInfinity), Rlim(RlimInfinity, RlimInfinity)}}

\* the ceilings of a process nobody has limited
DefaultRlimits ==
    [AS |-> Rlim(RlimInfinity, RlimInfinity),
     CPU |-> Rlim(RlimInfinity, RlimInfinity),
     CORE |-> Rlim(0, RlimInfinity)]

(* ------------------------------ inputs --------------------------------- *)
\* a filter text too long for its error response to fit in a pipe
LongText == [i \in 1..PipeCap |-> "a"]

Filter(text, load, outs, loops) ==
    [text |-> text, load |-> load, outs |-> outs, loops |-> loops]

\* the filters of the main specification
FilterLib ==
    { Filter(<<"a">>, "ok", <<"test">>, FALSE),
      Filter(<<"a", "a">>, "ok", <<"val", "err">>, TRUE),
      Filter(<<"q">>, "parse", <<>>, FALSE),
      Filter(LongText, "parse", <<>>, FALSE) }

\* the filters of the engine specification: every behaviour of a short text
AllFilters ==
    { Filter(<<"a", "q">>, l, o, b) :
        l \in {"ok", "parse", "compile"}, o \in SeqsUpTo(Items, MaxOut), b \in BOOLEAN }

\* SafeJaq { time_limit, memory_limit }: the time limit in milliseconds,
\* one below a second and one that is not a whole number of seconds
ConfigSeq ==
    << [time_limit |-> 500, memory_limit |-> 1024],
       [time_limit |-> 2500, memory_limit |-> 2048] >>

Configs == {ConfigSeq[i] : i \in DOMAIN ConfigSeq}

\* the supervisors of the limits specification: time limits of whole and
\* of half seconds, memory limits around the enumerated ceilings
LimitConfigs ==
    {[time_limit |-> 1000 * secs + ms, memory_limit |-> m] :
        secs \in 0..MaxRlim, ms \in {0, 500}, m \in (0..(MaxRlim + 1)) \cup {RlimInfinity}}

(* ------------------------------- state --------------------------------- *)
VARIABLES
    exe,      \* what the current executable does when run with "jaq-eval"
    inherited, \* the resource ceilings of the supervisor's process
    self,     \* self[c]: the SafeJaq instance call c was made on
    filter,   \* filter[c], payload[c]: the arguments of call c
    payload,
    call,     \* call[c]: the evaluate future of call c
    child,    \* child[c]: the child process of call c
    pipe,     \* pipe[c]: the stdin and stdout pipes of that child
    reaper    \* reaper[c]: the background task spawned for call c

vars == <<exe, inherited, self, filter, payload, call, child, pipe, reaper>>

NoResult == [tag |-> "None"]

LimitExceeded(sj) ==
    [tag |-> "LimitExceeded", time_limit |-> sj.time_limit, memory_limit |-> sj.memory_limit]

InitCall ==
    [pc |-> "idle", request |-> <<>>, sent |-> 0, result |-> NoResult, cause |-> "none",
     spawned |-> 0, returned |-> 0, owner |-> "none"]

InitChild ==
    [pc |-> "none", args |-> <<>>, status |-> "none", buf |-> <<>>, request |-> Malformed,
     result |-> NoResult, response |-> <<>>, written |-> 0, evals |-> 0,
     rlimit |-> NoRlimits]

InitPipe == [stdin |-> <<>>, stdinOpen |-> TRUE, stdout |-> <<>>]

\* both pipes after the parent dropped its ends
ClosedPipe == [stdin |-> <<>>, stdinOpen |-> FALSE, stdout |-> <<>>]

InitReaper == [pc |-> "none", spawned |-> 0, waited |-> 0, killed |-> FALSE]

\* nothing spawned yet
Idle ==
    /\ call = [c \in Calls |-> InitCall]
    /\ child = [c \in Calls |-> InitChild]
    /\ pipe = [c \in Calls |-> InitPipe]
    /\ reaper = [c \in Calls |-> InitReaper]

\* one supervisor, one filter and payload, either executable
Init ==
    /\ exe \in {"evaluator", "other"}
    /\ inherited = DefaultRlimits
    /\ self \in {[c \in Calls |-> sj] : sj \in Configs}
    /\ filter \in {[c \in Calls |-> f] : f \in FilterLib}
    /\ payload \in {[c \in Calls |-> p] : p \in Payloads \cup {DeepPayload}}
    /\ Idle

\* the filter/payload pairs of concurrent calls, pairwise distinct
Pairs ==
    << [f |-> Filter(<<"a">>, "ok", <<"test">>, FALSE), p |-> "liron"],
       [f |-> Filter(<<"a">>, "ok", <<"test">>, FALSE), p |-> "other"],
       [f |-> Filter(<<"a", "a">>, "ok", <<"val", "err">>, TRUE), p |-> "other"],
       [f |-> Filter(<<"q">>, "parse", <<>>, FALSE), p |-> "liron"] >>

\* the pair of call c in scenario k: consecutive calls get consecutive pairs
PairOf(c, k) == Pairs[((c + k - 1) % Len(Pairs)) + 1]

\* concurrent calls with distinct filter/payload pairs, on one supervisor
\* (k even) or on two (k odd)
ConcInit ==
    /\ exe = "evaluator"
    /\ inherited = DefaultRlimits
    /\ \E k \in 0..(Len(Pairs) - 2) :
          /\ filter = [c \in Calls |-> PairOf(c, k).f]
          /\ payload = [c \in Calls |-> PairOf(c, k).p]
          /\ self = [c \in Calls |-> ConfigSeq[IF k % 2 = 0 THEN 1 ELSE (c % 2) + 1]]
    /\ Idle

\* every behaviour of the filter library for one text
EngineInit ==
    /\ exe = "evaluator"
    /\ inherited = DefaultRlimits
    /\ self = [c \in Calls |-> ConfigSeq[1]]
    /\ filter \in {[c \in Calls |-> f] : f \in AllFilters}
    /\ payload \in {[c \in Calls |-> p] : p \in Payloads}
    /\ Idle

\* every supervisor configuration under every inherited ceiling
LimitsInit ==
    /\ exe = "evaluator"
    /\ inherited \in AllRlimits
    /\ self \in {[c \in Calls |-> sj] : sj \in LimitConfigs}
    /\ filter = [c \in Calls |-> Filter(<<"a">>, "ok", <<"test">>, FALSE)]
    /\ payload = [c \in Calls |-> "liron"]
    /\ Idle

Running(c) == child[c].pc \notin {"none", "exited"}

Exited(c) == child[c].pc = "exited"

(* ----------------------------- supervisor ------------------------------ *)
\* a child spawned without kill_on_drop
NoKillOnDrop == FALSE

\* Command::kill_on_drop(true)
KillOnDrop == TRUE

\* the process after it ended with the given status: its memory is gone
Ended(ch, status) ==
    [ch EXCEPT !.pc = "exited", !.status = status, !.buf = <<>>, !.request = Malformed,
               !.result = NoResult, !.response = <<>>, !.written = 0,
               !.rlimit = NoRlimits]

\* the process after SIGKILL or a fatal signal
Killed(ch) == Ended(ch, "signal")

\* dropping the handle leaves the process alone
DropChildDetaches(ch) == ch

\* dropping the tokio Child handle of a process
DropChild(ch) ==
    IF KillOnDrop /\ ch.pc \notin {"none", "exited"} THEN Killed(ch) ELSE ch

CommandError(why) == [tag |-> "Command", why |-> why]

\* the time limit is passed as as_millis() instead of as_secs()
SpawnPassesMillis(c) ==
    /\ call[c].pc = "idle"
    /\ \/ /\ call' = [call EXCEPT ![c].pc = "done", ![c].returned = @ + 1,
                                  ![c].result = CommandError("spawn")]
          /\ UNCHANGED <<child, pipe>>
       \/ /\ call' = [call EXCEPT ![c].pc = "write", ![c].spawned = @ + 1,
                                  ![c].owner = "call",
                                  ![c].request = SerializeRequest(filter[c].text, payload[c])]
          /\ child' = [child EXCEPT
                          ![c].pc = IF exe = "evaluator" THEN "limits" ELSE "other",
                          ![c].rlimit = inherited,
                          ![c].args = <<"jaq-eval", "-m", self[c].memory_limit,
                                        "-t", self[c].time_limit>>]
          /\ pipe' = [pipe EXCEPT ![c] = InitPipe]
    /\ UNCHANGED <<exe, inherited, self, filter, payload, reaper>>

\* Command::new(current_exe()?) .. .spawn().map_err(Command)?, and the
\* serialization of the request
Spawn(c) ==
    /\ call[c].pc = "idle"
    /\ \/ /\ call' = [call EXCEPT ![c].pc = "done", ![c].returned = @ + 1,
                                  ![c].result = CommandError("spawn")]
          /\ UNCHANGED <<child, pipe>>
       \/ /\ call' = [call EXCEPT ![c].pc = "write", ![c].spawned = @ + 1,
                                  ![c].owner = "call",
                                  ![c].request = SerializeRequest(filter[c].text, payload[c])]
          /\ child' = [child EXCEPT
                          ![c].pc = IF exe = "evaluator" THEN "limits" ELSE "other",
                          ![c].rlimit = inherited,
                          ![c].args = <<"jaq-eval", "-m", self[c].memory_limit,
                                        "-t", self[c].time_limit \div 1000>>]
          /\ pipe' = [pipe EXCEPT ![c] = InitPipe]
    /\ UNCHANGED <<exe, inherited, self, filter, payload, reaper>>

\* stdin.write(..) in place of write_all: one write of what fits, whether or
\* not that is the whole request
WriteOnce(c) ==
    /\ call[c].pc = "write"
    /\ Running(c)
    /\ Len(pipe[c].stdin) < PipeCap
    /\ LET rest == Drop(call[c].request, call[c].sent)
           n == Min(PipeCap - Len(pipe[c].stdin), Len(rest))
       IN  /\ pipe' = [pipe EXCEPT ![c].stdin = @ \o Take(rest, n)]
           /\ call' = [call EXCEPT ![c].sent = @ + n, ![c].pc = "shutdown"]
    /\ UNCHANGED <<exe, inherited, self, filter, payload, child, reaper>>

\* stdin.write_all(request.as_bytes()).await: writes what fits, suspends
\* while the pipe is full
WriteAll(c) ==
    /\ call[c].pc = "write"
    /\ Running(c)
    /\ Len(pipe[c].stdin) < PipeCap
    /\ LET rest == Drop(call[c].request, call[c].sent)
           n == Min(PipeCap - Len(pipe[c].stdin), Len(rest))
       IN  /\ pipe' = [pipe EXCEPT ![c].stdin = @ \o Take(rest, n)]
           /\ call' = [call EXCEPT ![c].sent = @ + n,
                                   ![c].pc = IF n = Len(rest) THEN "shutdown" ELSE "write"]
    /\ UNCHANGED <<exe, inherited, self, filter, payload, child, reaper>>

\* stdin.shutdown().await
Shutdown(c) ==
    /\ call[c].pc = "shutdown"
    /\ pipe' = [pipe EXCEPT ![c].stdinOpen = FALSE]
    /\ call' = [call EXCEPT ![c].pc = "wait"]
    /\ UNCHANGED <<exe, inherited, self, filter, payload, child, reaper>>

\* child.wait().await resolves once the child has exited
Wait(c) ==
    /\ call[c].pc = "wait"
    /\ Exited(c)
    /\ call' = [call EXCEPT ![c].pc = "collect"]
    /\ UNCHANGED <<exe, inherited, self, filter, payload, child, pipe, reaper>>

InExchange(c) == call[c].pc \in {"write", "shutdown", "wait"}

\* the child is dropped instead of being handed to a reaper
RaceLostDropsChild(c, why) ==
    /\ call' = [call EXCEPT ![c].pc = "done", ![c].returned = @ + 1, ![c].cause = why,
                            ![c].owner = "dropped",
                            ![c].result = LimitExceeded(self[c])]
    /\ child' = [child EXCEPT ![c] = DropChild(@)]
    /\ pipe' = [pipe EXCEPT ![c] = ClosedPipe]
    /\ UNCHANGED <<exe, inherited, self, filter, payload, reaper>>

\* let Ok(Ok(())) = result else { tokio::spawn(reaper); return LimitExceeded }
\* The call does nothing more with the child, so the first poll of the
\* spawned task is taken together with the return: it starts the grace
\* timer and child.wait(), which closes the child's stdin.
RaceLost(c, why) ==
    /\ reaper' = [reaper EXCEPT ![c].pc = "wait", ![c].spawned = @ + 1]
    /\ pipe' = [pipe EXCEPT ![c].stdinOpen = FALSE]
    /\ call' = [call EXCEPT ![c].pc = "done", ![c].returned = @ + 1, ![c].cause = why,
                            ![c].owner = "reaper",
                            ![c].result = LimitExceeded(self[c])]
    /\ UNCHANGED <<exe, inherited, self, filter, payload, child>>

\* the call joins the reaper task instead of returning
DeadlineJoinsReaper(c) ==
    /\ InExchange(c)
    /\ reaper' = [reaper EXCEPT ![c].pc = "wait", ![c].spawned = @ + 1]
    /\ pipe' = [pipe EXCEPT ![c].stdinOpen = FALSE]
    /\ call' = [call EXCEPT ![c].pc = "join", ![c].cause = "deadline", ![c].owner = "reaper"]
    /\ UNCHANGED <<exe, inherited, self, filter, payload, child>>

\* tokio::time::timeout(self.time_limit, ..) elapses before the exchange ends
Deadline(c) ==
    /\ InExchange(c)
    /\ RaceLost(c, "deadline")

\* the io::Error is propagated to the caller with `?`
IoFailAsCommand(c) ==
    /\ InExchange(c)
    /\ call' = [call EXCEPT ![c].pc = "done", ![c].returned = @ + 1, ![c].cause = "io",
                            ![c].owner = "dropped", ![c].result = CommandError("io")]
    /\ child' = [child EXCEPT ![c] = DropChild(@)]
    /\ pipe' = [pipe EXCEPT ![c] = ClosedPipe]
    /\ UNCHANGED <<exe, inherited, self, filter, payload, reaper>>

\* the call starts over with a fresh child after an io::Error
IoFailRetries(c) ==
    /\ InExchange(c)
    /\ call[c].spawned < 3
    /\ call' = [call EXCEPT ![c].pc = "idle", ![c].sent = 0, ![c].owner = "none"]
    /\ child' = [child EXCEPT ![c] = InitChild]
    /\ pipe' = [pipe EXCEPT ![c] = InitPipe]
    /\ UNCHANGED <<exe, inherited, self, filter, payload, reaper>>

\* one of the three `?` of the exchange yields an io::Error
IoFail(c) ==
    /\ InExchange(c)
    /\ RaceLost(c, "io")

\* a lenient parse: malformed output counts as "no match"
OutcomeLenient(sj, status, stdout) ==
    IF status # "ok" THEN LimitExceeded(sj)
    ELSE LET parsed == ParseResult(stdout)
         IN  IF parsed.tag = "Ok" THEN [tag |-> "Ok", val |-> parsed.val]
             ELSE IF parsed.tag = "Err" THEN [tag |-> "Evaluation", msg |-> parsed.msg]
             ELSE [tag |-> "Ok", val |-> FALSE]

\* the output is parsed without looking at the exit status
OutcomeIgnoresStatus(sj, status, stdout) ==
    LET parsed == ParseResult(stdout)
    IN  IF parsed.tag = "Ok" THEN [tag |-> "Ok", val |-> parsed.val]
        ELSE IF parsed.tag = "Err" THEN [tag |-> "Evaluation", msg |-> parsed.msg]
        ELSE IF status # "ok" THEN LimitExceeded(sj)
        ELSE CommandError("malformed output")

\* the match on wait_with_output and on serde_json::from_slice
Outcome(sj, status, stdout) ==
    IF status # "ok" THEN LimitExceeded(sj)
    ELSE LET parsed == ParseResult(stdout)
         IN  IF parsed.tag = "Ok" THEN [tag |-> "Ok", val |-> parsed.val]
             ELSE IF parsed.tag = "Err" THEN [tag |-> "Evaluation", msg |-> parsed.msg]
             ELSE CommandError("malformed output")

\* every child's output is read from the pipe of the first child
SharedStdout(c) == pipe[1].stdout

\* the bytes read from the stdout handle of the call's own child
Stdout(c) == pipe[c].stdout

\* child.wait_with_output().await and everything after it
Collect(c) ==
    /\ call[c].pc = "collect"
    /\ \/ call' = [call EXCEPT ![c].pc = "done", ![c].returned = @ + 1,
                               ![c].owner = "dropped",
                               ![c].result = CommandError("wait_with_output")]
       \/ call' = [call EXCEPT ![c].pc = "done", ![c].returned = @ + 1,
                               ![c].owner = "dropped",
                               ![c].result = Outcome(self[c], child[c].status, Stdout(c))]
    /\ pipe' = [pipe EXCEPT ![c] = ClosedPipe]
    /\ child' = [child EXCEPT ![c] = DropChild(@)]
    /\ UNCHANGED <<exe, inherited, self, filter, payload, reaper>>

InFlight == {"write", "shutdown", "wait", "collect"}

\* the caller drops the evaluate future at one of its await points (or
\* before its first poll): the future's locals are dropped, the child
\* handle among them; nothing is returned
Abandon(c) ==
    /\ call[c].pc \in InFlight \cup {"idle"}
    /\ call' = [call EXCEPT ![c].pc = "abandoned",
                            ![c].owner = IF call[c].pc = "idle" THEN "none" ELSE "dropped"]
    /\ child' = [child EXCEPT ![c] = DropChild(@)]
    /\ pipe' = [pipe EXCEPT ![c] = IF call[c].pc = "idle" THEN @ ELSE ClosedPipe]
    /\ UNCHANGED <<exe, inherited, self, filter, payload, reaper>>

(* --------------------------- background reaper ------------------------- *)
\* Ok(Ok(status)): the child exited within the grace period, only logged
ReaperExited(c) ==
    /\ reaper[c].pc = "wait"
    /\ Exited(c)
    /\ reaper' = [reaper EXCEPT ![c].pc = "done"]
    /\ call' = [call EXCEPT ![c].owner = "dropped"]
    /\ child' = [child EXCEPT ![c] = DropChild(@)]
    /\ pipe' = [pipe EXCEPT ![c] = ClosedPipe]
    /\ UNCHANGED <<exe, inherited, self, filter, payload>>

\* Ok(Err(error)): waiting failed, only logged; the task ends and drops child
ReaperWaitFailed(c) ==
    /\ reaper[c].pc = "wait"
    /\ reaper' = [reaper EXCEPT ![c].pc = "done"]
    /\ call' = [call EXCEPT ![c].owner = "dropped"]
    /\ child' = [child EXCEPT ![c] = DropChild(@)]
    /\ pipe' = [pipe EXCEPT ![c] = ClosedPipe]
    /\ UNCHANGED <<exe, inherited, self, filter, payload>>

\* the kill is sent when the wait ends, whether or not the child has exited
ReaperKillAlways(c) ==
    /\ reaper[c].pc = "wait"
    /\ reaper' = [reaper EXCEPT ![c].pc = "done", ![c].waited = GraceSecs, ![c].killed = TRUE]
    /\ call' = [call EXCEPT ![c].owner = "dropped"]
    /\ child' = [child EXCEPT ![c] = IF Running(c) THEN Killed(@) ELSE @]
    /\ pipe' = [pipe EXCEPT ![c] = ClosedPipe]
    /\ UNCHANGED <<exe, inherited, self, filter, payload>>

\* Err(_elapsed): the grace period elapsed with the child still running;
\* child.kill().await, whose failure is only logged: the task ends either
\* way and the handle it drops was spawned with kill_on_drop
ReaperKill(c) ==
    /\ reaper[c].pc = "wait"
    /\ Running(c)
    /\ reaper' = [reaper EXCEPT ![c].pc = "done", ![c].waited = GraceSecs, ![c].killed = TRUE]
    /\ call' = [call EXCEPT ![c].owner = "dropped"]
    /\ child' = [child EXCEPT ![c] = Killed(@)]
    /\ pipe' = [pipe EXCEPT ![c] = ClosedPipe]
    /\ UNCHANGED <<exe, inherited, self, filter, payload>>

(* ------------------------------- child --------------------------------- *)
\* the child goes on to read its input without having called set_limits
ChildSkipsLimits(c) ==
    /\ child[c].pc = "limits"
    /\ child' = [child EXCEPT ![c].pc = "read"]
    /\ UNCHANGED <<exe, inherited, self, filter, payload, call, pipe, reaper>>

\* set_limits(memory_limit, time_limit)
ChildSetLimits(c) ==
    /\ child[c].pc = "limits"
    /\ child' = [child EXCEPT
                    ![c].rlimit = set_limits(@, child[c].args[3], child[c].args[5]),
                    ![c].pc = "read"]
    /\ UNCHANGED <<exe, inherited, self, filter, payload, call, pipe, reaper>>

\* one read of stdin().read_to_end(&mut buf): takes what the pipe holds
ChildRead(c) ==
    /\ child[c].pc = "read"
    /\ pipe[c].stdin # <<>>
    /\ child' = [child EXCEPT ![c].buf = @ \o pipe[c].stdin]
    /\ pipe' = [pipe EXCEPT ![c].stdin = <<>>]
    /\ UNCHANGED <<exe, inherited, self, filter, payload, call, reaper>>

\* a malformed request is answered in-band with an evaluation error
ChildParseLenient(c) ==
    /\ child[c].pc = "read"
    /\ pipe[c].stdin = <<>>
    /\ ~pipe[c].stdinOpen
    /\ LET request == ParseRequest(child[c].buf)
           failure == [tag |-> "Err", msg |-> <<"P">>]
       IN  child' = [child EXCEPT
                        ![c] = IF request = Malformed
                               THEN [@ EXCEPT !.buf = <<>>, !.result = failure, !.evals = 1,
                                              !.response = SerializeResult(failure),
                                              !.pc = "respond"]
                               ELSE [@ EXCEPT !.request = request, !.buf = <<>>,
                                              !.pc = "evaluate"]]
    /\ UNCHANGED <<exe, inherited, self, filter, payload, call, pipe, reaper>>

\* read_to_end sees end-of-file; from_slice::<EvaluationRequest>(&buf)
\* .expect(..) panics on a malformed request
ChildParse(c) ==
    /\ child[c].pc = "read"
    /\ pipe[c].stdin = <<>>
    /\ ~pipe[c].stdinOpen
    /\ LET request == ParseRequest(child[c].buf)
       IN  child' = [child EXCEPT
                        ![c] = IF request = Malformed THEN Ended(@, "panic")
                               ELSE [@ EXCEPT !.request = request, !.buf = <<>>,
                                              !.pc = "evaluate"]]
    /\ UNCHANGED <<exe, inherited, self, filter, payload, call, pipe, reaper>>

\* an error of the engine ends the process with a failure status instead of
\* being written as the response
ChildEvaluateFailsOnErr(c) ==
    /\ child[c].pc = "evaluate"
    /\ LET result == evaluate(FilterOf(child[c].request.text, filter[c]),
                              child[c].request.payload)
       IN  /\ result # Diverges
           /\ child' = [child EXCEPT
                            ![c] = IF result.tag = "Err"
                                   THEN Ended([@ EXCEPT !.evals = @ + 1], "panic")
                                   ELSE [@ EXCEPT !.result = result, !.evals = @ + 1,
                                                  !.response = SerializeResult(result),
                                                  !.pc = "respond"]]
    /\ UNCHANGED <<exe, inherited, self, filter, payload, call, pipe, reaper>>

\* let result = evaluate(request), for a run that ends
ChildEvaluate(c) ==
    /\ child[c].pc = "evaluate"
    /\ LET result == evaluate(FilterOf(child[c].request.text, filter[c]),
                              child[c].request.payload)
       IN  /\ result # Diverges
           /\ child' = [child EXCEPT ![c].result = result, ![c].evals = @ + 1,
                                     ![c].response = SerializeResult(result),
                                     ![c].pc = "respond"]
    /\ UNCHANGED <<exe, inherited, self, filter, payload, call, pipe, reaper>>

\* serde_json::to_writer(&mut stdout, &result): writes what fits, blocks
\* while the pipe is full
ChildWrite(c) ==
    /\ child[c].pc = "respond"
    /\ Len(pipe[c].stdout) < PipeCap
    /\ LET rest == Drop(child[c].response, child[c].written)
           n == Min(PipeCap - Len(pipe[c].stdout), Len(rest))
       IN  /\ pipe' = [pipe EXCEPT ![c].stdout = @ \o Take(rest, n)]
           /\ child' = [child EXCEPT ![c].written = @ + n,
                                     ![c].pc = IF n = Len(rest) THEN "exit" ELSE "respond"]
    /\ UNCHANGED <<exe, inherited, self, filter, payload, call, reaper>>

\* std::process::exit(0)
ChildExit(c) ==
    /\ child[c].pc = "exit"
    /\ child' = [child EXCEPT ![c] = Ended(@, "ok")]
    /\ UNCHANGED <<exe, inherited, self, filter, payload, call, pipe, reaper>>

\* the kernel ends the child: the CPU-time ceiling, an allocation failing
\* under the address-space ceiling, or any other fatal signal
OsKill(c) ==
    /\ Running(c)
    /\ child' = [child EXCEPT ![c] = Killed(@)]
    /\ pipe' = [pipe EXCEPT ![c].stdin = <<>>]
    /\ UNCHANGED <<exe, inherited, self, filter, payload, call, reaper>>

\* what an executable that does not implement "jaq-eval" may print
OtherOutputs ==
    { SerializeResult([tag |-> "Ok", val |-> TRUE]),
      SerializeResult([tag |-> "Err", msg |-> <<"a", "q">>]),
      <<"{Ok:", "true">> }

\* such an executable reads some of its stdin
OtherRead(c) ==
    /\ child[c].pc = "other"
    /\ pipe[c].stdin # <<>>
    /\ pipe' = [pipe EXCEPT ![c].stdin = <<>>]
    /\ UNCHANGED <<exe, inherited, self, filter, payload, call, child, reaper>>

\* it prints something and exits, with the success status or
\* another one
OtherExit(c) ==
    /\ child[c].pc = "other"
    /\ \E bytes \in OtherOutputs, status \in {"ok", "panic"} :
          /\ child' = [child EXCEPT ![c] = Ended(@, status)]
          /\ pipe' = [pipe EXCEPT ![c].stdin = <<>>, ![c].stdout = bytes]
    /\ UNCHANGED <<exe, inherited, self, filter, payload, call, reaper>>

(* --------------------------- specifications ---------------------------- *)
SupervisorStep(c) ==
    \/ Spawn(c)
    \/ WriteAll(c)
    \/ Shutdown(c)
    \/ Wait(c)
    \/ Deadline(c)
    \/ IoFail(c)
    \/ Collect(c)

ReaperStep(c) ==
    \/ ReaperExited(c)
    \/ ReaperWaitFailed(c)
    \/ ReaperKill(c)

EvaluatorStep(c) ==
    \/ ChildSetLimits(c)
    \/ ChildRead(c)
    \/ ChildParse(c)
    \/ ChildEvaluate(c)
    \/ ChildWrite(c)
    \/ ChildExit(c)
    \/ OsKill(c)

OtherStep(c) ==
    \/ OtherRead(c)
    \/ OtherExit(c)

\* one evaluate call, with either executable
Next ==
    \/ SupervisorStep(1)
    \/ ReaperStep(1)
    \/ EvaluatorStep(1)
    \/ OtherStep(1)

Spec == Init /\ [][Next]_vars

\* concurrent evaluate calls with the executable that implements "jaq-eval"
ConcNext ==
    \E c \in Calls :
        \/ SupervisorStep(c)
        \/ ReaperStep(c)
        \/ EvaluatorStep(c)

ConcSpec == ConcInit /\ [][ConcNext]_vars

\* one evaluate call over every behaviour of the filter library
EngineNext ==
    \/ SupervisorStep(1)
    \/ ReaperStep(1)
    \/ EvaluatorStep(1)

EngineSpec == EngineInit /\ [][EngineNext]_vars

\* the start of one child under every configuration and inherited ceiling
LimitsNext ==
    \/ Spawn(1)
    \/ ChildSetLimits(1)

LimitsSpec == LimitsInit /\ [][LimitsNext]_vars

\* one evaluate call that its caller may abandon
AbandonNext ==
    \/ Next
    \/ Abandon(1)

AbandonSpec == Init /\ [][AbandonNext]_vars

\* the tokio runtime polls ready tasks and fires elapsed timers; nothing
\* obliges a child to take a step
Fairness ==
    \A c \in Calls :
        /\ WF_vars(Wait(c))
        /\ WF_vars(Deadline(c))
        /\ WF_vars(Collect(c))
        /\ WF_vars(ReaperExited(c))
        /\ WF_vars(ReaperKill(c))

LiveSpec == Init /\ [][Next]_vars /\ Fairness

(* ------------------------------ properties ----------------------------- *)
Returned(c) == call[c].pc = "done"

IsLimitExceeded(c) == call[c].result = LimitExceeded(self[c])

\* C1: every evaluate call whose child was spawned eventually returns,
\* whatever the child does, and a call that has not returned yet has no
\* reaper: it never waits for the grace period or the kill.
C1_ReturnsByDeadline ==
    /\ [](\A c \in Calls : ~Returned(c) => reaper[c] = InitReaper)
    /\ \A c \in Calls : (call[c].spawned = 1) ~> Returned(c)

\* the call returned LimitExceeded on the deadline while its child, stuck
\* in a filter that never ends, is still running and the grace period of
\* the reaper has only begun
C1_Witness ==
    \E c \in Calls :
        /\ Returned(c) /\ call[c].cause = "deadline" /\ IsLimitExceeded(c)
        /\ child[c].pc = "evaluate" /\ filter[c].loops
        /\ reaper[c].pc = "wait" /\ reaper[c].waited = 0

\* C2: when the deadline elapses before the exchange completes, or an I/O
\* step of the exchange fails, evaluate returns LimitExceeded with the
\* limits of its supervisor, once, after spawning a reaper that owns the
\* child; never Ok, Evaluation or CommandError.
C2_RaceLostIsLimitExceeded ==
    \A c \in Calls :
        call[c].cause \in {"deadline", "io"} =>
            /\ Returned(c) /\ call[c].returned = 1
            /\ call[c].result = [tag |-> "LimitExceeded",
                                 time_limit |-> self[c].time_limit,
                                 memory_limit |-> self[c].memory_limit]
            /\ reaper[c].pc # "none"
            /\ call[c].owner = IF reaper[c].pc = "done" THEN "dropped" ELSE "reaper"

\* an I/O step failed while the child was reading the request: the call
\* has LimitExceeded and the reaper has the running child
C2_Witness ==
    \E c \in Calls :
        /\ call[c].cause = "io" /\ IsLimitExceeded(c)
        /\ call[c].owner = "reaper" /\ reaper[c].pc = "wait"
        /\ child[c].pc = "read"

\* the texts of the filters, and the error messages a response can carry
Texts == {f.text : f \in FilterLib} \cup {<<"a", "q">>}

Messages == {<<"P">> \o t : t \in Texts} \cup {<<"C">> \o t : t \in Texts} \cup Texts

WellFormedResults ==
    {[tag |-> "Ok", val |-> b] : b \in BOOLEAN} \cup {[tag |-> "Err", msg |-> m] : m \in Messages}

\* the step in which wait_with_output yields the output of call c
Collected(c) ==
    /\ call[c].pc = "collect"
    /\ call'[c].pc = "done"
    /\ call'[c].result # CommandError("wait_with_output")

\* C3: when the child exited with the success status and its output is
\* collected, the result depends on the output alone: the serialization of
\* Ok(b) gives Ok(b), the serialization of Err(m) gives Evaluation(m), any
\* other bytes give CommandError, and never LimitExceeded.
C3_SuccessStatusParsesOutput ==
    [][\A c \in Calls :
          (Collected(c) /\ child[c].status = "ok") =>
              /\ \A r \in WellFormedResults :
                    pipe[c].stdout = SerializeResult(r) =>
                        call'[c].result =
                            (IF r.tag = "Ok" THEN r ELSE [tag |-> "Evaluation", msg |-> r.msg])
              /\ (\A r \in WellFormedResults : pipe[c].stdout # SerializeResult(r)) =>
                    call'[c].result.tag = "Command"
              /\ call'[c].result.tag # "LimitExceeded"]_vars

\* an evaluation error with a quote in its message came back through the
\* pipe of a child that exited with the success status
C3_Witness ==
    \E c \in Calls :
        /\ Returned(c) /\ child[c].status = "ok" /\ call[c].cause = "none"
        /\ call[c].result = [tag |-> "Evaluation", msg |-> <<"P", "q">>]

\* C4: when the child exited within the deadline with another status than
\* success and its output is collected, evaluate returns LimitExceeded
\* with the limits of its supervisor, whatever the output holds.
C4_FailureStatusIsLimitExceeded ==
    [][\A c \in Calls :
          (Collected(c) /\ child[c].status # "ok") =>
              call'[c].result = [tag |-> "LimitExceeded",
                                 time_limit |-> self[c].time_limit,
                                 memory_limit |-> self[c].memory_limit]]_vars

\* the child ran the engine and was then ended by a signal within the
\* deadline; the call collected its status and answered LimitExceeded
C4_Witness ==
    \E c \in Calls :
        /\ Returned(c) /\ call[c].cause = "none" /\ reaper[c].pc = "none"
        /\ child[c].status = "signal" /\ child[c].evals = 1
        /\ IsLimitExceeded(c)

\* C5: after any outcome, once the reaper of the call (if there is one) is
\* through with its grace period, the child is not running; and a child
\* whose call returned does stop running.
C5_NoChildOutlivesGrace ==
    /\ [](\A c \in Calls :
            (Returned(c) /\ reaper[c].pc \in {"none", "done"}) => ~Running(c))
    /\ \A c \in Calls : Returned(c) ~> ~Running(c)

\* the reaper killed a child that was still running when the grace period
\* of GraceSecs seconds had elapsed
C5_Witness ==
    \E c \in Calls :
        /\ Returned(c) /\ reaper[c].pc = "done" /\ reaper[c].killed
        /\ reaper[c].waited = GraceSecs
        /\ child[c].status = "signal"

Outcomes == {"Ok", "Evaluation", "LimitExceeded", "Command"}

\* C6: a call spawns at most one child, writes its request at most once,
\* and returns exactly one outcome, exactly once; nothing is retried.
C6_OneChildOneOutcome ==
    \A c \in Calls :
        /\ call[c].spawned <= 1
        /\ call[c].sent <= Len(call[c].request)
        /\ call[c].returned = IF Returned(c) THEN 1 ELSE 0
        /\ call[c].result.tag \in (IF Returned(c) THEN Outcomes ELSE {"None"})
        /\ (call[c].spawned = 0) => (child[c] = InitChild /\ pipe[c] = InitPipe)

\* the call returned LimitExceeded after an I/O failure, with one child
\* spawned and the request written once
C6_Witness ==
    \E c \in Calls :
        /\ Returned(c) /\ call[c].cause = "io" /\ call[c].spawned = 1
        /\ call[c].sent = Len(call[c].request) /\ call[c].returned = 1

\* what the engine makes of the call's own filter and payload, as an outcome
OwnOutcome(c) ==
    LET own == evaluate(filter[c], payload[c])
    IN  IF own.tag = "Err" THEN [tag |-> "Evaluation", msg |-> own.msg] ELSE own

\* C7: with concurrent calls under any interleaving, each returned result
\* is the one of the call's own filter/payload pair and own child: a
\* verdict or evaluation error is what the engine makes of the call's own
\* pair, read from its own child that exited with the success status; a
\* LimitExceeded carries the call's own limits and is due to the call's own
\* lost race or own child's exit status.
C7_ResultsAreOwn ==
    \A c \in Calls :
        Returned(c) =>
            /\ call[c].result.tag \in {"Ok", "Evaluation"} =>
                  (call[c].result = OwnOutcome(c) /\ child[c].status = "ok")
            /\ call[c].result.tag = "LimitExceeded" =>
                  /\ IsLimitExceeded(c)
                  /\ call[c].cause # "none" \/ child[c].status \in {"signal", "panic"}
            /\ call[c].result.tag = "Command" =>
                  call[c].result.why \in {"spawn", "wait_with_output"}

\* two calls returned: one lost its race and had its child killed by the
\* reaper, the other got the verdict true of its own pair; a third result
\* is an evaluation error or the verdict false
C7_Witness ==
    \E c, d \in Calls :
        /\ c # d /\ Returned(c) /\ Returned(d)
        /\ call[c].cause = "deadline" /\ reaper[c].killed
        /\ call[d].result \in {[tag |-> "Ok", val |-> TRUE], [tag |-> "Ok", val |-> FALSE],
                               [tag |-> "Evaluation", msg |-> <<"P", "q">>]}
        /\ filter[c] # filter[d]

\* the positions of the boolean values of an output sequence
BoolPositions(outs) == {i \in 1..Len(outs) : outs[i] \in {"true", "false", "test"}}

\* C8: whenever the engine returns for a filter that compiled, it returns
\* Ok(the first boolean of the output sequence), whatever non-boolean
\* values and evaluation errors come before it, and Ok(false) when the
\* sequence holds no boolean; never an Err.
C8_FirstBooleanIsVerdict ==
    \A c \in Calls :
        (child[c].pc \in {"respond", "exit"} /\ filter[c].load = "ok") =>
            LET outs == filter[c].outs
                B == BoolPositions(outs)
            IN  /\ child[c].result.tag = "Ok"
                /\ child[c].result.val =
                      IF B = {} THEN FALSE
                      ELSE LET first == CHOOSE i \in B : \A j \in B : i <= j
                           IN  \/ outs[first] = "true"
                               \/ outs[first] = "test" /\ payload[c] = "liron"

\* the engine skipped an evaluation error and a non-boolean value and took
\* the boolean after them, ignoring the boolean that follows
C8_Witness ==
    \E c \in Calls :
        /\ child[c].pc = "exit"
        /\ filter[c].load = "ok"
        /\ filter[c].outs = <<"err", "val", "test">>
        /\ payload[c] = "liron"
        /\ child[c].result = [tag |-> "Ok", val |-> TRUE]

\* format!("failed to parse the filter: {errors:?}") and its compile twin,
\* as the caller expects them for its filter
ErrorMessage(f) == <<IF f.load = "parse" THEN "P" ELSE "C">> \o f.text

\* the child of call c is alive, has its response and cannot hand it over:
\* the stdout pipe is full and is not read before the child exits
BlockedInResponse(c) ==
    /\ child[c].pc = "respond"
    /\ Len(pipe[c].stdout) = PipeCap

\* C9: a filter that fails to parse or compile makes the engine return an
\* error without running the filter; a child that exits with the success
\* status has written that error, and evaluate returns it as Evaluation;
\* and a call whose child stays within its limits, with the error response
\* ready, is never answered LimitExceeded.
C9_InvalidFilterIsEvaluation ==
    /\ [](\A c \in Calls :
            (exe = "evaluator" /\ filter[c].load # "ok") =>
                /\ child[c].pc \in {"respond", "exit"} =>
                      child[c].result = [tag |-> "Err", msg |-> ErrorMessage(filter[c])]
                /\ (Returned(c) /\ call[c].result.tag \in {"Ok", "Evaluation"}) =>
                      call[c].result = [tag |-> "Evaluation", msg |-> ErrorMessage(filter[c])])
    /\ [][\A c \in Calls :
            (/\ exe = "evaluator" /\ filter[c].load # "ok"
             /\ BlockedInResponse(c)
             /\ ~Returned(c) /\ call'[c].pc = "done" /\ call'[c].cause = "deadline")
            => call'[c].result.tag # "LimitExceeded"]_vars

\* C10 as stated: an I/O failure of the exchange, with the deadline not
\* elapsed and the child not killed, makes evaluate return CommandError.
C10_IoFailureIsCommandError ==
    \A c \in Calls :
        (call[c].cause = "io" /\ child[c].status # "signal") =>
            call[c].result.tag = "Command"

\* C10 as amended: an I/O failure of the raced exchange makes evaluate
\* return LimitExceeded, whatever its reason; CommandError is returned only
\* when no child could be spawned, when collecting the output of the exited
\* child failed, or when a child that exited with the success status
\* printed malformed output.
C10_IoFailureIsLimitExceeded ==
    \A c \in Calls :
        /\ call[c].cause = "io" => call[c].result.tag = "LimitExceeded"
        /\ call[c].result.tag = "Command" =>
              /\ call[c].cause = "none" /\ reaper[c].pc = "none"
              /\ \/ call[c].result.why = "spawn" /\ child[c].pc = "none"
                 \/ call[c].result.why = "wait_with_output" /\ Exited(c)
                 \/ call[c].result.why = "malformed output" /\ child[c].status = "ok"

\* the write of the request failed while the child was alive and had not
\* been killed; the caller got LimitExceeded
C10_Witness ==
    \E c \in Calls :
        /\ call[c].cause = "io" /\ call[c].sent < Len(call[c].request)
        /\ Running(c) /\ child[c].status = "none"
        /\ call[c].result.tag = "LimitExceeded"

\* C11 as stated: a call that returned LimitExceeded has had exactly one
\* reaper spawned for it, on the deadline, on an I/O failure and on a
\* non-success exit status alike; a call that returned anything else none.
C11_ReaperForEveryLimitExceeded ==
    \A c \in Calls :
        Returned(c) =>
            reaper[c].spawned = IF call[c].result.tag = "LimitExceeded" THEN 1 ELSE 0

\* C11 as amended: exactly one reaper is spawned for a call that lost the
\* race (deadline elapsed or I/O failure of the exchange), at its return;
\* none is spawned for a call that has not returned, for one that returned
\* Ok, Evaluation or CommandError, nor for one that returned LimitExceeded
\* because its child had already exited with a non-success status.
C11_ReaperOnlyForLostRace ==
    \A c \in Calls :
        /\ reaper[c].spawned = IF call[c].cause \in {"deadline", "io"} THEN 1 ELSE 0
        /\ reaper[c].spawned = 1 => (Returned(c) /\ call[c].result.tag = "LimitExceeded")
        /\ (Returned(c) /\ call[c].result.tag \in {"Ok", "Evaluation", "Command"}) =>
              reaper[c] = InitReaper
        /\ (Returned(c) /\ call[c].result.tag = "LimitExceeded" /\ call[c].cause = "none") =>
              (reaper[c] = InitReaper /\ child[c].status \in {"panic", "signal"})

\* the child exited with a non-success status within the deadline and the
\* call returned LimitExceeded from the collection of its output, with no
\* reaper
C11_Witness ==
    \E c \in Calls :
        /\ Returned(c) /\ call[c].result.tag = "LimitExceeded"
        /\ call[c].cause = "none" /\ child[c].status = "panic"
        /\ reaper[c].spawned = 0 /\ reaper[c].pc = "none"

\* C12: losing the deadline race leaves the child as it is and hands it to
\* the reaper; the reaper sends the kill only to a child that is still
\* running when the grace period of GraceSecs seconds has elapsed, and none
\* when the child has exited before (it only logs); and no step taken after
\* the return, a failed wait or kill of the reaper included, changes the
\* result the caller received.
C12_ReaperKillsOnlyAfterGrace ==
    [][\A c \in Calls :
          /\ (call[c].pc # "done" /\ call'[c].pc = "done" /\ call'[c].cause = "deadline") =>
                /\ child'[c] = child[c]
                /\ reaper'[c].pc = "wait" /\ ~reaper'[c].killed
                /\ call'[c].owner = "reaper"
          /\ (~reaper[c].killed /\ reaper'[c].killed) =>
                /\ reaper[c].pc = "wait" /\ Running(c)
                /\ reaper'[c].waited = GraceSecs
          /\ (reaper[c].pc = "wait" /\ Exited(c) /\ reaper'[c].pc = "done") =>
                /\ ~reaper'[c].killed
                /\ child'[c] = child[c]
          /\ call[c].pc = "done" =>
                (call'[c].pc = "done" /\ call'[c].result = call[c].result)]_vars

\* the call lost the deadline race; its child went on, wrote its response
\* and exited with the success status within the grace period; the reaper
\* ended without a kill and the caller still has LimitExceeded
C12_Witness ==
    \E c \in Calls :
        /\ Returned(c) /\ call[c].cause = "deadline" /\ IsLimitExceeded(c)
        /\ reaper[c].pc = "done" /\ ~reaper[c].killed /\ reaper[c].waited = 0
        /\ child[c].status = "ok" /\ child[c].evals = 1

\* C13: a child running evaluator_main is single-use.  It runs the engine
\* at most once, and only on the request it read up to end-of-file; what it
\* has put on its stdout is a prefix of the one response; it exits with the
\* success status exactly from the state in which the whole serialized
\* result, verdict or evaluation error, is written; it ends abnormally on
\* its own only before the engine ran and with nothing written; and after
\* the request is parsed it reads nothing more.
C13_ChildIsSingleUse ==
    /\ [](\A c \in Calls :
            exe = "evaluator" =>
                /\ child[c].evals <= 1
                /\ child[c].pc \in {"limits", "read", "evaluate"} =>
                      (child[c].evals = 0 /\ child[c].written = 0 /\ pipe[c].stdout = <<>>)
                /\ child[c].pc \in {"respond", "exit"} =>
                      /\ child[c].evals = 1
                      /\ child[c].response = SerializeResult(child[c].result)
                      /\ pipe[c].stdout = Take(child[c].response, child[c].written)
                /\ child[c].status = "ok" => child[c].evals = 1
                /\ child[c].status = "panic" => child[c].evals = 0)
    /\ [][\A c \in Calls :
            exe = "evaluator" =>
                /\ (child[c].status = "none" /\ child'[c].status = "ok") =>
                      /\ child[c].pc = "exit"
                      /\ child[c].result.tag \in {"Ok", "Err"}
                      /\ pipe'[c].stdout = SerializeResult(child[c].result)
                /\ (child[c].status = "none" /\ child'[c].status = "panic") =>
                      (child[c].pc = "read" /\ pipe[c].stdout = <<>>)
                /\ child[c].pc \in {"evaluate", "respond", "exit"} =>
                      /\ child'[c].buf = <<>> /\ pipe[c].stdin = <<>>
                      /\ child'[c].pc \in {"evaluate", "respond", "exit", "exited"}
                /\ child[c].pc = "exit" => child'[c].pc \in {"exit", "exited"}
                /\ child[c].pc = "exited" => child'[c] = child[c]]_vars

\* the child ran the engine once on an invalid filter, wrote the evaluation
\* error as its one response and exited with the success status
C13_Witness ==
    \E c \in Calls :
        /\ exe = "evaluator" /\ filter[c].load = "parse"
        /\ child[c].pc = "exited" /\ child[c].status = "ok" /\ child[c].evals = 1
        /\ pipe[c].stdout = SerializeResult([tag |-> "Err", msg |-> ErrorMessage(filter[c])])

\* the requests the child can parse: the serialization of a filter text
\* and of a payload within the recursion limit
WellFormedRequests == {SerializeRequest(f.text, p) : f \in FilterLib, p \in Payloads}

\* C14: when the child sees end-of-file on its stdin and the bytes it read
\* are not a well-formed request, it ends with a failure status without
\* having run the engine and with nothing written to its stdout; when they
\* are, it goes on to evaluate; and a call whose child ended that way never
\* returns a verdict or an Evaluation error: collecting the child's status
\* gives LimitExceeded.
C14_MalformedRequestIsLimitExceeded ==
    /\ [][\A c \in Calls :
            (/\ exe = "evaluator" /\ child[c].pc = "read"
             /\ child'[c].pc # "read" /\ child'[c].status # "signal") =>
                IF child[c].buf \in WellFormedRequests
                THEN child'[c].pc = "evaluate"
                ELSE /\ child'[c].pc = "exited" /\ child'[c].status = "panic"
                     /\ child'[c].evals = 0 /\ pipe'[c].stdout = <<>>]_vars
    /\ [][\A c \in Calls :
            (exe = "evaluator" /\ Collected(c) /\ child[c].status = "panic") =>
                call'[c].result = LimitExceeded(self[c])]_vars
    /\ [](\A c \in Calls :
            (exe = "evaluator" /\ child[c].status = "panic" /\ Returned(c)) =>
                call[c].result.tag \notin {"Ok", "Evaluation"})

\* the payload was too deeply nested for the child to parse the request:
\* the child panicked before running the engine and the call, within its
\* deadline, returned LimitExceeded
C14_Witness ==
    \E c \in Calls :
        /\ exe = "evaluator" /\ payload[c] = DeepPayload
        /\ child[c].status = "panic" /\ child[c].evals = 0
        /\ Returned(c) /\ call[c].cause = "none" /\ IsLimitExceeded(c)

\* the ceilings of one resource after set_limits: lowered to the configured
\* limit, both soft and hard, exactly when the limit is strictly below the
\* inherited soft ceiling, and left as inherited otherwise
Lowered(old, new, limit) ==
    /\ new.soft = Min(old.soft, limit)
    /\ new.soft <= old.soft /\ new.hard <= old.hard /\ new.soft <= new.hard
    /\ (new # old) <=> (limit < old.soft)

\* C15: in a child that has run set_limits, whatever ceilings it inherited
\* and whatever limits are configured, the address-space and CPU-time
\* ceilings are no higher than inherited, the soft one being the minimum of
\* the inherited soft ceiling and the configured limit and a ceiling being
\* changed only for a limit strictly below the inherited soft ceiling; and
\* the core-dump ceiling is 0.
C15_LimitsOnlyLowered ==
    \A c \in Calls :
        child[c].pc = "read" =>
            /\ Lowered(inherited.AS, child[c].rlimit.AS, self[c].memory_limit)
            /\ Lowered(inherited.CPU, child[c].rlimit.CPU, self[c].time_limit \div 1000)
            /\ child[c].rlimit.CORE = Rlim(0, 0)

\* a child whose configured memory limit is above the inherited soft
\* ceiling, which is below the hard one, and whose sub-second time limit is
\* below the inherited CPU ceiling: the address-space ceiling is untouched,
\* the CPU ceiling is lowered to 0 and core dumps are off
C15_Witness ==
    \E c \in Calls :
        /\ child[c].pc = "read"
        /\ inherited.AS = Rlim(1, 2) /\ self[c].memory_limit = 2
        /\ child[c].rlimit.AS = Rlim(1, 2)
        /\ inherited.CPU = Rlim(2, RlimInfinity) /\ self[c].time_limit = 500
        /\ child[c].rlimit.CPU = Rlim(0, 0)
        /\ inherited.CORE = Rlim(RlimInfinity, RlimInfinity)
        /\ child[c].rlimit.CORE = Rlim(0, 0)

\* the ceilings of the child of call c are at or below the configured
\* limits and core dumps are off
LimitsApplied(c) ==
    /\ child[c].rlimit.AS.soft <= self[c].memory_limit
    /\ child[c].rlimit.CPU.soft <= self[c].time_limit \div 1000
    /\ child[c].rlimit.CORE = Rlim(0, 0)

\* the steps of evaluator_main in their order; a process can end anywhere
ChildOrder ==
    {<<"none", "limits">>, <<"limits", "read">>, <<"read", "evaluate">>,
     <<"evaluate", "respond">>, <<"respond", "exit">>}
    \cup {<<pc, "exited">> : pc \in {"limits", "read", "evaluate", "respond", "exit"}}

\* C16: a child that has not yet applied its limits has read nothing from
\* its stdin, has not run the engine and has written nothing; a child that
\* reads, holds input, evaluates or responds has its three ceilings
\* applied; and the child's steps follow the order set limits, read, parse,
\* evaluate, write, exit.
C16_LimitsBeforeInput ==
    /\ [](\A c \in Calls :
            exe = "evaluator" =>
                /\ child[c].pc = "limits" =>
                      /\ child[c].rlimit = inherited
                      /\ child[c].buf = <<>> /\ child[c].evals = 0
                      /\ child[c].request = Malformed /\ pipe[c].stdout = <<>>
                /\ child[c].pc \in {"read", "evaluate", "respond", "exit"} => LimitsApplied(c)
                /\ (child[c].buf # <<>> \/ child[c].request # Malformed) => LimitsApplied(c))
    /\ [][\A c \in Calls :
            exe = "evaluator" =>
                /\ child'[c].pc # child[c].pc => <<child[c].pc, child'[c].pc>> \in ChildOrder
                /\ child'[c].buf # child[c].buf => child[c].pc = "read"
                /\ child'[c].evals # child[c].evals => child[c].pc = "evaluate"]_vars

\* the child is running a filter that never ends, with the address-space
\* ceiling at the configured memory limit, the CPU-time ceiling at the
\* whole seconds of the time limit and core dumps off
C16_Witness ==
    \E c \in Calls :
        /\ exe = "evaluator" /\ child[c].pc = "evaluate" /\ filter[c].loops
        /\ self[c] = ConfigSeq[2]
        /\ child[c].rlimit = [AS |-> Rlim(2048, 2048), CPU |-> Rlim(2, 2), CORE |-> Rlim(0, 0)]

\* s is what is left of t after some of its head was taken
IsSuffix(s, t) == Len(s) <= Len(t) /\ s = Drop(t, Len(t) - Len(s))

\* C17: the call reads its child's stdout only in a state where the whole
\* request has been written and the child's stdin is closed (and the child
\* has exited); and from that state on it writes nothing to the child: the
\* count of bytes sent stays, the stdin pipe gets no new bytes and is not
\* reopened.
C17_RequestThenResponse ==
    /\ [](\A c \in Calls :
            call[c].pc = "collect" =>
                /\ call[c].request = SerializeRequest(filter[c].text, payload[c])
                /\ call[c].sent = Len(call[c].request)
                /\ ~pipe[c].stdinOpen
                /\ Exited(c))
    /\ [][\A c \in Calls :
            (call[c].spawned = 1 /\ call[c].pc \in {"collect", "done"}) =>
                /\ call'[c].pc \in {"collect", "done"}
                /\ call[c].pc = "done" => call'[c].pc = "done"
                /\ call'[c].sent = call[c].sent
                /\ IsSuffix(pipe'[c].stdin, pipe[c].stdin)
                /\ ~pipe'[c].stdinOpen]_vars

\* the request was written, the child's stdin closed, the child exited with
\* the success status, and the call is about to read the response that
\* waits in the stdout pipe
C17_Witness ==
    \E c \in Calls :
        /\ call[c].pc = "collect" /\ call[c].sent = Len(call[c].request)
        /\ ~pipe[c].stdinOpen /\ child[c].status = "ok"
        /\ ParseResult(pipe[c].stdout) = [tag |-> "Err", msg |-> <<"P", "q">>]

\* C18: the arguments of a spawned child are the mode selector, the memory
\* limit of the call's supervisor unchanged, and its time limit in whole
\* seconds, rounded down (0 below one second), so that the CPU time asked
\* for is at most the wall-clock deadline; and two calls on supervisors
\* with the same limits pass the same arguments.
C18_ArgsAreLimitsInWholeSeconds ==
    \A c \in Calls :
        call[c].spawned = 1 =>
            /\ Len(child[c].args) = 5
            /\ child[c].args[1] = "jaq-eval" /\ child[c].args[2] = "-m" /\ child[c].args[4] = "-t"
            /\ child[c].args[3] = self[c].memory_limit
            /\ 1000 * child[c].args[5] <= self[c].time_limit
            /\ self[c].time_limit < 1000 * (child[c].args[5] + 1)
            /\ self[c].time_limit < 1000 => child[c].args[5] = 0
            /\ \A d \in Calls :
                  (call[d].spawned = 1 /\ self[d] = self[c]) => child[d].args = child[c].args

\* two calls in flight on one supervisor with a time limit of half a
\* second: both children were asked for 0 seconds of CPU time and 1024
\* bytes, and have set their ceilings to that
C18_Witness ==
    \E c, d \in Calls :
        /\ c # d /\ self[c] = self[d] /\ self[c].time_limit = 500
        /\ child[c].args = <<"jaq-eval", "-m", 1024, "-t", 0>>
        /\ child[d].args = child[c].args
        /\ child[c].pc = "read" /\ child[c].rlimit.CPU = Rlim(0, 0)
        /\ child[d].pc = "read" /\ child[d].rlimit.AS = Rlim(1024, 1024)

\* C19: the exchange cannot block on itself: there is no state in which the
\* call waits for its child's exit, not reading the child's stdout, while
\* the child, within its limits and with its response ready, is blocked
\* writing that response to the full stdout pipe.
C19_ExchangeNeverBlocksOnItself ==
    \A c \in Calls :
        ~(/\ exe = "evaluator"
          /\ call[c].pc = "wait"
          /\ BlockedInResponse(c)
          /\ child[c].written < Len(child[c].response))

\* the evaluate future of call c holds the child handle
CallHolds(c) == call[c].pc \in InFlight

\* the reaper task of call c holds the child handle
ReaperHolds(c) == reaper[c].pc = "wait"

\* C20: abandoning a call in flight kills its running child at the drop of
\* the handle and spawns no reaper, then or later, so that an abandoned
\* call has no running child; and the handle of a child is held by the
\* in-flight call or by the reaper, never by both, and by one of them as
\* long as the child is alive.
C20_AbandonKillsChild ==
    /\ [](\A c \in Calls :
            /\ call[c].pc = "abandoned" =>
                  /\ ~Running(c)
                  /\ reaper[c] = InitReaper
                  /\ call[c].result = NoResult /\ call[c].returned = 0
            /\ ~(CallHolds(c) /\ ReaperHolds(c))
            /\ Running(c) => (CallHolds(c) \/ ReaperHolds(c))
            /\ call[c].owner = "call" <=> CallHolds(c)
            /\ call[c].owner = "reaper" <=> ReaperHolds(c))
    /\ [][\A c \in Calls :
            (call[c].pc # "abandoned" /\ call'[c].pc = "abandoned") =>
                /\ Running(c) => (child'[c].pc = "exited" /\ child'[c].status = "signal")
                /\ ~Running(c) => child'[c] = child[c]
                /\ reaper'[c] = reaper[c]]_vars

\* the caller dropped the call while its child was running a filter that
\* never ends, before the deadline: the child was killed by the drop of its
\* handle and there is no reaper
C20_Witness ==
    \E c \in Calls :
        /\ call[c].pc = "abandoned" /\ call[c].spawned = 1 /\ call[c].cause = "none"
        /\ filter[c].loops /\ call[c].sent = Len(call[c].request)
        /\ child[c].status = "signal"
        /\ reaper[c] = InitReaper

====
